---- MODULE Spec2Model ----
(***************************************************************************)
(* A model of the JWT identity and claims types of the cider crate:        *)
(* Algorithm (parse / as_str), Key, KeyData, Header, Claims and their     *)
(* serde serialization, with the time source they read.                    *)
(*                                                                         *)
(* A Rust &str / String is a sequence of one-character strings, so that    *)
(* equality is byte-for-byte equality and case or padding variants of a    *)
(* string are different values.  Option<T> is None / Some(v) and           *)
(* Result<T, E> is Ok(v) / Err(e).                                         *)
(***************************************************************************)
EXTENDS Integers, Sequences, FiniteSets, TLC

VARIABLES
    algIn,      \* Option<&str>: the string last given to Algorithm::from_str
    algRes,     \* Option<Result<Algorithm, ParseAlgorithmError>>: its result
    algOut,     \* Option<&str>: as_str() of the algorithm parsed from algIn
    algVal,     \* Option<Algorithm>: a variant the caller holds
    algValStr,  \* Option<&str>: algVal.as_str()
    algBack,    \* Option<Result<..>>: from_str(algValStr)
    keyArgs,    \* Option<(id, alg, data)>: the arguments last given to Key::new
    key,        \* Option<Key>: the key it returned
    header,     \* Option<(of, rev, h)>: the last Header built, with its key
    headerOut,  \* Option<(of, entries, json)>: the last Header serialized
    clock,      \* Duration: the system clock, as time since the Unix epoch
    snapshot,   \* Option<StdDurationSinceEpoch>: the time source the caller holds
    claimsArgs, \* Option<(team_id, time, exp)>: what the caller built Claims from
    claimsNew,  \* Option<Claims>: the value Claims::new returned
    claims,     \* Option<Claims>: the caller's claims, whose pub fields it may set
    claimsOut,  \* Option<(of, entries, json)>: the last Claims serialized
    built,      \* Option<(kind, in, at, val, json)>: the last value built and serialized
    builtPrev,  \* the one built before it
    jwkDoc,     \* the JSON object received: its members, name to value
    jwkParsed,  \* Option<(ty, set, res)>: the last parse of it, as a key or in a key set
    jwkOut,     \* Option<(of, entries, json)>: the parsed Jwk serialized again
    ckReq,      \* Option<request>: the last CloudKit request built
    ckPath,     \* Option<String>: its sub_path()
    ckBody,     \* Option<Option<body>>: its body()
    overflowChecks, \* whether the build checks integer overflow (debug) or wraps (release)
    timeSource, \* Option<StdDurationSinceEpoch>: a time source, seconds in full u64 range
    secsOut,    \* Option<u64>: its as_secs()
    millisOut,  \* Option<outcome>: its as_millis(), a value or a panic
    endpoint,   \* Option<(env, url)>: the last validate_device_endpoint()
    validationReq, \* Option<(args, res)>: the last ValidationReq::new, a value or a panic
    tokenClaims \* Option<Claims>: Claims::new on the same time source

algVars == <<algIn, algRes, algOut, algVal, algValStr, algBack>>
keyVars == <<keyArgs, key, header, headerOut>>
timeVars == <<clock, snapshot>>
claimsVars == <<claimsArgs, claimsNew, claims, claimsOut>>
detVars == <<built, builtPrev>>
jwkVars == <<jwkDoc, jwkParsed, jwkOut>>
ckVars == <<ckReq, ckPath, ckBody>>
dcVars ==
    <<overflowChecks, timeSource, secsOut, millisOut, endpoint, validationReq,
      tokenClaims>>
restVars == <<jwkVars, ckVars, dcVars>>

vars == <<algVars, keyVars, timeVars, claimsVars, detVars, restVars>>

----------------------------------------------------------------------------
(* Option and Result *)

None == [some |-> FALSE]
Some(v) == [some |-> TRUE, val |-> v]
Ok(v) == [ok |-> TRUE, val |-> v]
Err(e) == [ok |-> FALSE, err |-> e]

----------------------------------------------------------------------------
(* Strings *)

\* The longest string enumerated exhaustively as an input of from_str.
MaxStrLen == 2

Alphabet == {"E", "S", "R", "2", "5", "6", "e", " "}

StringsUpTo(n) == UNION {[1..k -> Alphabet] : k \in 0..n}

ToLowerChar(c) ==
    CASE c = "E" -> "e"
      [] c = "S" -> "s"
      [] c = "R" -> "r"
      [] OTHER -> c

ToLower(s) == [i \in 1..Len(s) |-> ToLowerChar(s[i])]

IsSpace(c) == c = " "

RECURSIVE TrimStart(_)
TrimStart(s) == IF s # <<>> /\ IsSpace(Head(s)) THEN TrimStart(Tail(s)) ELSE s

RECURSIVE TrimEnd(_)
TrimEnd(s) ==
    IF s # <<>> /\ IsSpace(s[Len(s)]) THEN TrimEnd(SubSeq(s, 1, Len(s) - 1)) ELSE s

Trim(s) == TrimEnd(TrimStart(s))

\* The text of a string, for comparison with a literal.
RECURSIVE Text(_)
Text(s) == IF s = <<>> THEN "" ELSE Head(s) \o Text(Tail(s))

----------------------------------------------------------------------------
(* jwt.rs: Algorithm *)

Algorithm == {"Es256", "Rs256"}

ES256 == <<"E", "S", "2", "5", "6">>
RS256 == <<"R", "S", "2", "5", "6">>

\* A slip in the match arms: both variants give the same tag.
Algorithm_as_str_same(a) == ES256

Algorithm_as_str(a) ==
    CASE a = "Es256" -> ES256
      [] a = "Rs256" -> RS256

ParseAlgorithmError == {"UnknownAlgorithm"}

\* A lenient parser: an unmatched string falls back to a default algorithm.
Algorithm_from_str_lenient(s) ==
    IF s = ES256 THEN Ok("Es256")
    ELSE IF s = RS256 THEN Ok("Rs256")
    ELSE Ok("Es256")

\* A normalising parser: surrounding white space is trimmed before the match.
Algorithm_from_str_trim(s) ==
    IF Trim(s) = ES256 THEN Ok("Es256")
    ELSE IF Trim(s) = RS256 THEN Ok("Rs256")
    ELSE Err("UnknownAlgorithm")

Algorithm_from_str(s) ==
    IF s = ES256 THEN Ok("Es256")
    ELSE IF s = RS256 THEN Ok("Rs256")
    ELSE Err("UnknownAlgorithm")

Registered == {ES256, RS256}

\* Near misses of a registered name: case-folded, padded, cut and extended.
Variants(s) ==
    {s, ToLower(s), <<" ">> \o s, s \o <<" ">>,
     SubSeq(s, 1, Len(s) - 1), s \o <<"6">>}

AlgInputs == StringsUpTo(MaxStrLen) \cup UNION {Variants(r) : r \in Registered}

----------------------------------------------------------------------------
(* The caller's steps on Algorithm *)

\* s.parse::<Algorithm>()
FromStr(s) ==
    /\ algIn' = Some(s)
    /\ algRes' = Some(Algorithm_from_str(s))
    /\ algOut' = None
    /\ UNCHANGED <<algVal, algValStr, algBack>>
    /\ UNCHANGED <<keyVars, timeVars, claimsVars, detVars, restVars>>

\* as_str() of the algorithm that was parsed
AsStr ==
    /\ algRes.some
    /\ algRes.val.ok
    /\ algOut' = Some(Algorithm_as_str(algRes.val.val))
    /\ UNCHANGED <<algIn, algRes, algVal, algValStr, algBack>>
    /\ UNCHANGED <<keyVars, timeVars, claimsVars, detVars, restVars>>

\* as_str() of a variant the caller holds
VariantAsStr(a) ==
    /\ algVal' = Some(a)
    /\ algValStr' = Some(Algorithm_as_str(a))
    /\ algBack' = None
    /\ UNCHANGED <<algIn, algRes, algOut>>
    /\ UNCHANGED <<keyVars, timeVars, claimsVars, detVars, restVars>>

\* parsing the string that as_str() gave
ParseBack ==
    /\ algValStr.some
    /\ algBack' = Some(Algorithm_from_str(algValStr.val))
    /\ UNCHANGED <<algIn, algRes, algOut, algVal, algValStr>>
    /\ UNCHANGED <<keyVars, timeVars, claimsVars, detVars, restVars>>

InitAlg ==
    /\ algIn = None
    /\ algRes = None
    /\ algOut = None
    /\ algVal = None
    /\ algValStr = None
    /\ algBack = None

NextAlg ==
    \/ \E s \in AlgInputs : FromStr(s)
    \/ AsStr
    \/ \E a \in Algorithm : VariantAsStr(a)
    \/ ParseBack

----------------------------------------------------------------------------
(* serde: what a Serialize impl emits, and serde_json's compact text of it *)

StrValue(s) == [t |-> "str", v |-> s]
U64Value(n) == [t |-> "u64", v |-> n]
NullValue == [t |-> "null"]
Entry(k, v) == [k |-> k, v |-> v]

\* serialize_some(v) is v itself; serialize_none() is null
OptionStrValue(o) == IF o.some THEN StrValue(o.val) ELSE NullValue
OptionU64Value(o) == IF o.some THEN U64Value(o.val) ELSE NullValue

Digits == <<"0", "1", "2", "3", "4", "5", "6", "7", "8", "9">>

RECURSIVE Itoa(_)
Itoa(n) == IF n < 10 THEN Digits[n + 1] ELSE Itoa(n \div 10) \o Digits[(n % 10) + 1]

JsonEscapeChar(c) ==
    CASE c = "\"" -> "\\\""
      [] c = "\\" -> "\\\\"
      [] OTHER -> c

RECURSIVE JsonEscape(_)
JsonEscape(s) ==
    IF s = <<>> THEN "" ELSE JsonEscapeChar(Head(s)) \o JsonEscape(Tail(s))

JsonValue(v) ==
    CASE v.t = "str" -> "\"" \o JsonEscape(v.v) \o "\""
      [] v.t = "u64" -> Itoa(v.v)
      [] v.t = "null" -> "null"

RECURSIVE JsonMembers(_)
JsonMembers(es) ==
    IF es = <<>> THEN ""
    ELSE "\"" \o Head(es).k \o "\":" \o JsonValue(Head(es).v)
             \o (IF Tail(es) = <<>> THEN "" ELSE "," \o JsonMembers(Tail(es)))

to_json(es) == "{" \o JsonMembers(es) \o "}"

Keys(es) == [i \in 1..Len(es) |-> es[i].k]

----------------------------------------------------------------------------
(* jwt.rs: KeyId, KeyData, Jwk, Key *)

abc123 == <<"a", "b", "c", "1", "2", "3">>

\* KeyId(&str): the empty id, the documented example and one that needs escaping
KeyIds == {<<>>, abc123, <<"k", "\"">>}

\* &[u8]
ByteBufs == {<<>>, <<48, 129, 135>>}

EcJwk ==
    [kty |-> <<"E", "C">>, use |-> None, alg |-> Some(ES256), kid |-> Some(abc123),
     crv |-> Some(<<"P", "-", "2", "5", "6">>), x |-> Some(<<"x">>), y |-> Some(<<"y">>),
     e |-> None, n |-> None]

RsaJwk ==
    [kty |-> <<"R", "S", "A">>, use |-> Some(<<"s", "i", "g">>), alg |-> Some(RS256),
     kid |-> None, crv |-> None, x |-> None, y |-> None,
     e |-> Some(<<"A", "Q", "A", "B">>), n |-> Some(<<"n">>)]

Jwks == {EcJwk, RsaJwk}

KeyData_Pkcs8(bytes) == [tag |-> "Pkcs8", bytes |-> bytes]

\* A struct with always-present fields in place of the enum variant.
KeyData_Jwk_struct(jwk) == [tag |-> "Jwk", bytes |-> <<>>, jwk |-> jwk]

KeyData_Jwk(jwk) == [tag |-> "Jwk", jwk |-> jwk]

KeyDatas == {KeyData_Pkcs8(b) : b \in ByteBufs} \cup {KeyData_Jwk(j) : j \in Jwks}

\* The algorithm family of the key material, where the material names one.
FamilyAlg(data, alg) ==
    IF data.tag = "Jwk" /\ data.jwk.kty = <<"R", "S", "A">> THEN "Rs256"
    ELSE IF data.tag = "Jwk" /\ data.jwk.kty = <<"E", "C">> THEN "Es256"
    ELSE alg

\* A constructor that makes the algorithm agree with the key material.
Key_new_family(id, alg, data) == [id |-> id, alg |-> FamilyAlg(data, alg), data |-> data]

Key_new(id, alg, data) == [id |-> id, alg |-> alg, data |-> data]

Key_id(k) == k.id
Key_alg(k) == k.alg
Key_data(k) == k.data

----------------------------------------------------------------------------
(* jwt.rs and crypto/jwt.rs: Header *)

\* A constructor that puts a default in place of an empty key id.
Header_new_default_kid(k) ==
    [alg |-> Algorithm_as_str(k.alg), kid |-> IF k.id = <<>> THEN <<"0">> ELSE k.id]

\* jwt.rs: Header::new(key: &Key)
Header_new(k) == [alg |-> Algorithm_as_str(k.alg), kid |-> k.id]

\* crypto/jwt.rs: an implementation of the Key trait is its id and the
\* &'static str that its type's alg() returns.
TraitKeys == [id : KeyIds, alg : {ES256, RS256}]

\* crypto/jwt.rs: Header::new<K: Key>(key: &K)
CryptoHeader_new(k) == [alg |-> k.alg, kid |-> k.id]

Header_alg(h) == h.alg
Header_kid(h) == h.kid

\* A Serialize that skips an empty kid.
Header_serialize_skip_empty(h) ==
    <<Entry("alg", StrValue(h.alg))>>
        \o (IF h.kid = <<>> THEN <<>> ELSE <<Entry("kid", StrValue(h.kid))>>)

\* jwt.rs: #[derive(Serialize)] on Header emits the fields in declaration order
Header_serialize(h) == <<Entry("alg", StrValue(h.alg)), Entry("kid", StrValue(h.kid))>>

\* crypto/jwt.rs: impl Serialize for Header, a map of two entries
CryptoHeader_serialize(h) ==
    <<Entry("alg", StrValue(h.alg)), Entry("kid", StrValue(h.kid))>>

SerializeHeaderOf(rev, h) ==
    IF rev = "jwt" THEN Header_serialize(h) ELSE CryptoHeader_serialize(h)

----------------------------------------------------------------------------
(* The caller's steps on Key and Header *)

\* Key::new(&id, alg, &data)
NewKey(id, alg, data) ==
    /\ keyArgs' = Some([id |-> id, alg |-> alg, data |-> data])
    /\ key' = Some(Key_new(id, alg, data))
    /\ UNCHANGED <<header, headerOut>>
    /\ UNCHANGED <<algVars, timeVars, claimsVars, detVars, restVars>>

\* jwt.rs: Header::new(&key)
NewHeader ==
    /\ key.some
    /\ header' = Some([of |-> key.val, rev |-> "jwt", h |-> Header_new(key.val)])
    /\ UNCHANGED <<keyArgs, key, headerOut>>
    /\ UNCHANGED <<algVars, timeVars, claimsVars, detVars, restVars>>

\* crypto/jwt.rs: Header::new(&key) for a key of a type implementing Key
NewCryptoHeader(k) ==
    /\ header' = Some([of |-> k, rev |-> "crypto", h |-> CryptoHeader_new(k)])
    /\ UNCHANGED <<keyArgs, key, headerOut>>
    /\ UNCHANGED <<algVars, timeVars, claimsVars, detVars, restVars>>

\* serde_json::to_string(&header)
SerializeHeader ==
    /\ header.some
    /\ LET es == SerializeHeaderOf(header.val.rev, header.val.h)
       IN headerOut' = Some([of |-> header.val.h, entries |-> es, json |-> to_json(es)])
    /\ UNCHANGED <<keyArgs, key, header>>
    /\ UNCHANGED <<algVars, timeVars, claimsVars, detVars, restVars>>

InitKey ==
    /\ keyArgs = None
    /\ key = None
    /\ header = None
    /\ headerOut = None

NextKey ==
    \/ \E id \in KeyIds, alg \in Algorithm, data \in KeyDatas : NewKey(id, alg, data)
    \/ NewHeader
    \/ \E k \in TraitKeys : NewCryptoHeader(k)
    \/ SerializeHeader

----------------------------------------------------------------------------
(* time.rs: the time source *)

\* std::time::Duration since the Unix epoch: whole seconds and the nanoseconds
\* of the second begun.
Durations ==
    {[secs |-> 0, nanos |-> 0],
     [secs |-> 1600000000, nanos |-> 0],
     [secs |-> 1600003600, nanos |-> 999999999]}

Later(a, b) == a.secs < b.secs \/ (a.secs = b.secs /\ a.nanos < b.nanos)

\* StdDurationSinceEpoch::now(): SystemTime::now().duration_since(UNIX_EPOCH)
StdDurationSinceEpoch_now == clock

\* DurationSinceEpoch::as_secs for StdDurationSinceEpoch
as_secs(d) == d.secs

\* Time passes.
Tick(d) ==
    /\ Later(clock, d)
    /\ clock' = d
    /\ UNCHANGED <<snapshot, algVars, keyVars, claimsVars, detVars, restVars>>

\* The caller takes a time snapshot.
Now ==
    /\ snapshot' = Some(StdDurationSinceEpoch_now)
    /\ UNCHANGED <<clock, algVars, keyVars, claimsVars, detVars, restVars>>

InitTime ==
    /\ clock \in Durations
    /\ snapshot = None

NextTime ==
    \/ \E d \in Durations : Tick(d)
    \/ Now

----------------------------------------------------------------------------
(* jwt.rs and crypto/jwt.rs: Claims (the two files define it alike) *)

TEAM0123XY == <<"T", "E", "A", "M", "0", "1", "2", "3", "X", "Y">>

\* TeamId(&str)
TeamIds == {TEAM0123XY, <<"T">>}

\* Option<u64>: an expiry the caller means the token to have
SomeExp == Some(1600003600)
Exps == {None, SomeExp}
Auds == {None, Some(<<"a", "u", "d">>)}
Subs == {None, Some(<<"s", "u", "b">>)}

\* A builder that reads the wall clock itself.
Claims_new_wallclock(team_id, dse) ==
    [iss |-> team_id, iat |-> as_secs(StdDurationSinceEpoch_now),
     exp |-> None, aud |-> None, sub |-> None]

\* A builder that gives every token a default lifetime.
Claims_new_lifetime(team_id, dse) ==
    [iss |-> team_id, iat |-> as_secs(dse),
     exp |-> SomeExp, aud |-> None, sub |-> None]

Claims_new(team_id, dse) ==
    [iss |-> team_id, iat |-> as_secs(dse), exp |-> None, aud |-> None, sub |-> None]

\* A Serialize without skip_serializing_if: an absent claim is emitted as null.
Claims_serialize_null(c) ==
    <<Entry("iss", StrValue(c.iss)), Entry("iat", U64Value(c.iat)),
      Entry("exp", OptionU64Value(c.exp)), Entry("aud", OptionStrValue(c.aud)),
      Entry("sub", OptionStrValue(c.sub))>>

\* #[derive(Serialize)] with skip_serializing_if = "Option::is_none" on exp,
\* aud and sub
Claims_serialize(c) ==
    <<Entry("iss", StrValue(c.iss)), Entry("iat", U64Value(c.iat))>>
        \o (IF c.exp.some THEN <<Entry("exp", OptionU64Value(c.exp))>> ELSE <<>>)
        \o (IF c.aud.some THEN <<Entry("aud", OptionStrValue(c.aud))>> ELSE <<>>)
        \o (IF c.sub.some THEN <<Entry("sub", OptionStrValue(c.sub))>> ELSE <<>>)

----------------------------------------------------------------------------
(* The caller's steps on Claims *)

\* Claims::new(&team_id, snapshot), by a caller that means the token to expire
\* at exp; Claims::new has no parameter that takes it.
NewClaims(team_id, exp) ==
    /\ snapshot.some
    /\ claimsArgs' = Some([team_id |-> team_id, time |-> snapshot.val, exp |-> exp])
    /\ claimsNew' = Some(Claims_new(team_id, snapshot.val))
    /\ claims' = Some(Claims_new(team_id, snapshot.val))
    /\ UNCHANGED <<claimsOut, algVars, keyVars, timeVars, detVars, restVars>>

\* claims.exp = e
SetExp(e) ==
    /\ claims.some
    /\ claims' = Some([claims.val EXCEPT !.exp = e])
    /\ UNCHANGED <<claimsArgs, claimsNew, claimsOut>>
    /\ UNCHANGED <<algVars, keyVars, timeVars, detVars, restVars>>

\* claims.aud = a
SetAud(a) ==
    /\ claims.some
    /\ claims' = Some([claims.val EXCEPT !.aud = a])
    /\ UNCHANGED <<claimsArgs, claimsNew, claimsOut>>
    /\ UNCHANGED <<algVars, keyVars, timeVars, detVars, restVars>>

\* claims.sub = s
SetSub(s) ==
    /\ claims.some
    /\ claims' = Some([claims.val EXCEPT !.sub = s])
    /\ UNCHANGED <<claimsArgs, claimsNew, claimsOut>>
    /\ UNCHANGED <<algVars, keyVars, timeVars, detVars, restVars>>

\* serde_json::to_string(&claims)
SerializeClaims ==
    /\ claims.some
    /\ LET es == Claims_serialize(claims.val)
       IN claimsOut' = Some([of |-> claims.val, entries |-> es, json |-> to_json(es)])
    /\ UNCHANGED <<claimsArgs, claimsNew, claims>>
    /\ UNCHANGED <<algVars, keyVars, timeVars, detVars, restVars>>

InitClaims ==
    /\ claimsArgs = None
    /\ claimsNew = None
    /\ claims = None
    /\ claimsOut = None

NextClaims ==
    \/ \E team_id \in TeamIds, exp \in Exps : NewClaims(team_id, exp)
    \/ \E e \in Exps : SetExp(e)
    \/ \E a \in Auds : SetAud(a)
    \/ \E s \in Subs : SetSub(s)
    \/ SerializeClaims

----------------------------------------------------------------------------
(* A caller that builds and serializes values one after another *)

\* The keys it builds headers from.
DetKeys == {Key_new(id, alg, KeyData_Pkcs8(<<>>)) : id \in KeyIds, alg \in Algorithm}

Record(kind, in, val, es) ==
    Some([kind |-> kind, in |-> in, at |-> clock, val |-> val, json |-> to_json(es)])

BuildHeader(k) ==
    /\ built' = Record("Header", k, Header_new(k), Header_serialize(Header_new(k)))
    /\ builtPrev' = built
    /\ UNCHANGED <<algVars, keyVars, timeVars, claimsVars, restVars>>

BuildCryptoHeader(k) ==
    /\ built' = Record("CryptoHeader", k, CryptoHeader_new(k),
                       CryptoHeader_serialize(CryptoHeader_new(k)))
    /\ builtPrev' = built
    /\ UNCHANGED <<algVars, keyVars, timeVars, claimsVars, restVars>>

BuildClaims(team_id) ==
    /\ snapshot.some
    /\ built' = Record("Claims", [team_id |-> team_id, time |-> snapshot.val],
                       Claims_new(team_id, snapshot.val),
                       Claims_serialize(Claims_new(team_id, snapshot.val)))
    /\ builtPrev' = built
    /\ UNCHANGED <<algVars, keyVars, timeVars, claimsVars, restVars>>

InitDet ==
    /\ built = None
    /\ builtPrev = None

NextDet ==
    \/ \E k \in DetKeys : BuildHeader(k)
    \/ \E k \in TraitKeys : BuildCryptoHeader(k)
    \/ \E team_id \in TeamIds : BuildClaims(team_id)

----------------------------------------------------------------------------
(* crypto.rs, jwt.rs, siwa.rs: Jwk, JwkSet and their derived Deserialize *)

\* A JSON object is its members, name to value; this is the one without any.
EmptyDoc == [k \in {} |-> NullValue]

RSA == <<"R", "S", "A">>

JwkFields == {"kty", "use", "alg", "kid", "crv", "x", "y", "e", "n"}
OptionalJwkFields == JwkFields \ {"kty"}
SiwaJwkFields == {"kty", "kid", "use", "alg", "e", "n"}

\* A member no Jwk type declares.
UnknownField == "ext"

DocNames == JwkFields \cup {UnknownField}

\* A JSON true or false
BoolValue(b) == [t |-> "bool", b |-> b]

\* The values a member of the received object may have: a string for every
\* member, also null for kty, and null or a boolean for kid.
DocValues(k) ==
    IF k = "kty" THEN {StrValue(RSA), NullValue}
    ELSE IF k = "kid" THEN {StrValue(abc123), NullValue, BoolValue(TRUE)}
    ELSE {StrValue(<<"v">>)}

\* Deserialize for String, as a field of a derived struct
RequiredString(doc, k) ==
    IF k \notin DOMAIN doc THEN Err("missing field")
    ELSE IF doc[k].t = "str" THEN Ok(doc[k].v)
    ELSE Err("invalid type")

\* Deserialize for Option<String>, as a field of a derived struct: a missing
\* member and null are both None
OptionalString(doc, k) ==
    IF k \notin DOMAIN doc THEN Ok(None)
    ELSE IF doc[k].t = "null" THEN Ok(None)
    ELSE IF doc[k].t = "str" THEN Ok(Some(doc[k].v))
    ELSE Err("invalid type")

\* #[derive(Deserialize)] on a struct of String and Option<String> fields: the
\* members are visited first (a value of the wrong type ends the parse), the
\* members a struct does not declare are skipped, and the missing fields are
\* found at the end.
StructDeserialize(doc, required, optional) ==
    LET r == [k \in required \cup optional |->
                 IF k \in required THEN RequiredString(doc, k) ELSE OptionalString(doc, k)]
    IN IF \E k \in DOMAIN r : r[k] = Err("invalid type") THEN Err("invalid type")
       ELSE IF \E k \in DOMAIN r : r[k] = Err("missing field") THEN Err("missing field")
       ELSE Ok([k \in DOMAIN r |-> r[k].val])

\* A Jwk with #[serde(deny_unknown_fields)].
Jwk_deserialize_deny_unknown(doc) ==
    IF ~(DOMAIN doc \subseteq JwkFields) THEN Err("unknown field")
    ELSE StructDeserialize(doc, {"kty"}, OptionalJwkFields)

\* jwt.rs: #[derive(Deserialize)] struct Jwk
Jwk_deserialize(doc) == StructDeserialize(doc, {"kty"}, OptionalJwkFields)

\* crypto.rs: #[derive(Deserialize)] struct Jwk
CryptoJwk_deserialize(doc) == StructDeserialize(doc, {"kty"}, OptionalJwkFields)

\* siwa.rs: #[derive(Deserialize)] struct JWK, whose six fields are all String
SiwaJWK_deserialize(doc) == StructDeserialize(doc, SiwaJwkFields, {})

JwkTypes == {"jwt::Jwk", "crypto::Jwk", "siwa::JWK"}

DeserializeAs(ty, doc) ==
    CASE ty = "jwt::Jwk" -> Jwk_deserialize(doc)
      [] ty = "crypto::Jwk" -> CryptoJwk_deserialize(doc)
      [] ty = "siwa::JWK" -> SiwaJWK_deserialize(doc)

\* #[derive(Deserialize)] struct JwkSet { keys: Vec<Jwk> } (JWKSet in siwa.rs):
\* the first element that does not parse ends the parse.
JwkSet_deserialize(ty, doc) ==
    IF "keys" \notin DOMAIN doc THEN Err("missing field")
    ELSE LET rs == [i \in 1..Len(doc.keys) |-> DeserializeAs(ty, doc.keys[i])]
         IN IF \E i \in DOMAIN rs : ~rs[i].ok
            THEN Err(rs[CHOOSE i \in DOMAIN rs :
                            ~rs[i].ok /\ \A j \in 1..(i - 1) : rs[j].ok].err)
            ELSE Ok([keys |-> [i \in DOMAIN rs |-> rs[i].val]])

\* A key as Apple's key endpoint serves it: every type parses it.
RsaDoc ==
    [kty |-> StrValue(RSA), kid |-> StrValue(abc123), use |-> StrValue(<<"s", "i", "g">>),
     alg |-> StrValue(RS256), e |-> StrValue(<<"A", "Q", "A", "B">>),
     n |-> StrValue(<<"n">>)]

SkipNone(k, o) == IF o.some THEN <<Entry(k, OptionStrValue(o))>> ELSE <<>>

\* A Serialize without skip_serializing_if on the optional fields.
Jwk_serialize_null(j) ==
    <<Entry("kty", StrValue(j.kty)), Entry("use", OptionStrValue(j.use)),
      Entry("alg", OptionStrValue(j.alg)), Entry("kid", OptionStrValue(j.kid)),
      Entry("crv", OptionStrValue(j.crv)), Entry("x", OptionStrValue(j.x)),
      Entry("y", OptionStrValue(j.y)), Entry("e", OptionStrValue(j.e)),
      Entry("n", OptionStrValue(j.n))>>

\* jwt.rs: #[derive(Serialize)] struct Jwk, the fields in declaration order,
\* skip_serializing_if = "Option::is_none" on all but kty
Jwk_serialize(j) ==
    <<Entry("kty", StrValue(j.kty))>>
        \o SkipNone("use", j.use) \o SkipNone("alg", j.alg) \o SkipNone("kid", j.kid)
        \o SkipNone("crv", j.crv) \o SkipNone("x", j.x) \o SkipNone("y", j.y)
        \o SkipNone("e", j.e) \o SkipNone("n", j.n)

----------------------------------------------------------------------------
(* The caller's steps on a received key document *)

\* The object received has one more member.
AddMember(k, v) ==
    /\ ~jwkParsed.some
    /\ k \notin DOMAIN jwkDoc
    /\ jwkDoc' = (k :> v) @@ jwkDoc
    /\ UNCHANGED <<jwkParsed, jwkOut>>
    /\ UNCHANGED <<algVars, keyVars, timeVars, claimsVars, detVars, ckVars, dcVars>>

\* serde_json::from_str::<Jwk>(object), for one of the three key types
ParseJwk(ty) ==
    /\ jwkParsed' = Some([ty |-> ty, set |-> FALSE, res |-> DeserializeAs(ty, jwkDoc)])
    /\ UNCHANGED <<jwkDoc, jwkOut>>
    /\ UNCHANGED <<algVars, keyVars, timeVars, claimsVars, detVars, ckVars, dcVars>>

\* serde_json::from_str::<JwkSet>({"keys": [a served key, object]})
ParseJwkSet(ty) ==
    /\ jwkParsed' =
           Some([ty |-> ty, set |-> TRUE,
                 res |-> JwkSet_deserialize(ty, [keys |-> <<RsaDoc, jwkDoc>>])])
    /\ UNCHANGED <<jwkDoc, jwkOut>>
    /\ UNCHANGED <<algVars, keyVars, timeVars, claimsVars, detVars, ckVars, dcVars>>

\* serde_json::to_string(&jwk) of the jwt::Jwk that was parsed; crypto::Jwk
\* implements no Serialize
ReserializeJwk ==
    /\ jwkParsed.some
    /\ jwkParsed.val.ty = "jwt::Jwk"
    /\ ~jwkParsed.val.set
    /\ jwkParsed.val.res.ok
    /\ LET es == Jwk_serialize(jwkParsed.val.res.val)
       IN jwkOut' = Some([of |-> jwkParsed.val.res.val, entries |-> es,
                          json |-> to_json(es)])
    /\ UNCHANGED <<jwkDoc, jwkParsed>>
    /\ UNCHANGED <<algVars, keyVars, timeVars, claimsVars, detVars, ckVars, dcVars>>

InitJwk ==
    /\ jwkDoc = EmptyDoc
    /\ jwkParsed = None
    /\ jwkOut = None

NextJwk ==
    \/ \E k \in DocNames : \E v \in DocValues(k) : AddMember(k, v)
    \/ \E ty \in JwkTypes : ParseJwk(ty)
    \/ \E ty \in JwkTypes : ParseJwkSet(ty)
    \/ ReserializeJwk

----------------------------------------------------------------------------
(* cloudkit.rs, cloudkit/records.rs, cloudkit/zones.rs: request paths *)

iCloud_app == <<"i", "C", "l", "o", "u", "d", ".", "a", "p", "p">>

\* Container(&str): the empty name, a usual one and one with a '/'
Containers == {<<>>, iCloud_app, <<"a", "/", "b">>}

CkEnv == {"Dev", "Prod"}

CkEnv_as_str(env) ==
    CASE env = "Dev" -> "development"
      [] env = "Prod" -> "production"

DbBasePath_new(container, env) == [container |-> container, env |-> env]

DbBasePath_version(p) == "1"

DbBasePath_container(p) == p.container

DbBasePath_environment(p) == p.env

DbBasePath_sub_path(p) ==
    "/database/" \o DbBasePath_version(p)
        \o "/" \o Text(DbBasePath_container(p))
        \o "/" \o CkEnv_as_str(DbBasePath_environment(p))

Db == {"Public", "Private", "Shared"}

Db_as_str(db) ==
    CASE db = "Public" -> "public"
      [] db = "Private" -> "private"
      [] db = "Shared" -> "shared"

\* ModifyRecordsRequestBody: no operation, with and without the atomic flag
ModifyRecordsRequestBodies ==
    {[operations |-> <<>>, zone_id |-> <<"z">>, atomic |-> a] :
        a \in {None, Some(TRUE)}}

ModifyRecordsRequest_new(db_base_path, db, body) ==
    [req |-> "ModifyRecordsRequest", db_base_path |-> db_base_path, db |-> db,
     body |-> body]

\* A path whose database follows the environment with nothing between them.
ModifyRecordsRequest_sub_path_joined(r) ==
    DbBasePath_sub_path(r.db_base_path) \o Db_as_str(r.db) \o "/records/modify"

ModifyRecordsRequest_sub_path(r) ==
    DbBasePath_sub_path(r.db_base_path) \o "/" \o Db_as_str(r.db)
        \o "/records/modify"

ModifyRecordsRequest_body(r) == Some(r.body)

FetchZonesRequest_new(db_base_path, db) ==
    [req |-> "FetchZonesRequest", db_base_path |-> db_base_path, db |-> db]

FetchZonesRequest_sub_path(r) ==
    DbBasePath_sub_path(r.db_base_path) \o "/" \o Db_as_str(r.db)
        \o "/zones/list"

FetchZonesRequest_body(r) == None

\* Request::sub_path and Request::body, dispatched on the implementing type
Request_sub_path(r) ==
    IF r.req = "ModifyRecordsRequest" THEN ModifyRecordsRequest_sub_path(r)
    ELSE FetchZonesRequest_sub_path(r)

Request_body(r) ==
    IF r.req = "ModifyRecordsRequest" THEN ModifyRecordsRequest_body(r)
    ELSE FetchZonesRequest_body(r)

NewModifyRecordsRequest(container, env, db, body) ==
    /\ ckReq' = Some(ModifyRecordsRequest_new(DbBasePath_new(container, env), db, body))
    /\ ckPath' = None
    /\ ckBody' = None
    /\ UNCHANGED <<algVars, keyVars, timeVars, claimsVars, detVars, jwkVars, dcVars>>

NewFetchZonesRequest(container, env, db) ==
    /\ ckReq' = Some(FetchZonesRequest_new(DbBasePath_new(container, env), db))
    /\ ckPath' = None
    /\ ckBody' = None
    /\ UNCHANGED <<algVars, keyVars, timeVars, claimsVars, detVars, jwkVars, dcVars>>

SubPath ==
    /\ ckReq.some
    /\ ckPath' = Some(Request_sub_path(ckReq.val))
    /\ UNCHANGED <<ckReq, ckBody>>
    /\ UNCHANGED <<algVars, keyVars, timeVars, claimsVars, detVars, jwkVars, dcVars>>

Body ==
    /\ ckReq.some
    /\ ckBody' = Some(Request_body(ckReq.val))
    /\ UNCHANGED <<ckReq, ckPath>>
    /\ UNCHANGED <<algVars, keyVars, timeVars, claimsVars, detVars, jwkVars, dcVars>>

InitCk == ckReq = None /\ ckPath = None /\ ckBody = None

NextCk ==
    \/ \E c \in Containers, env \in CkEnv, db \in Db,
          body \in ModifyRecordsRequestBodies :
            NewModifyRecordsRequest(c, env, db, body)
    \/ \E c \in Containers, env \in CkEnv, db \in Db :
            NewFetchZonesRequest(c, env, db)
    \/ SubPath
    \/ Body

----------------------------------------------------------------------------
(* time.rs: as_millis, in 64-bit arithmetic.  A u64 is four 16-bit limbs, *)
(* least significant first.                                                *)

U64(n) == <<n % 65536, n \div 65536, 0, 0>>

\* x * m + carry, one limb longer than x: the last limb is what overflows
RECURSIVE MulSmall(_, _, _)
MulSmall(x, m, carry) ==
    IF x = <<>> THEN <<carry>>
    ELSE LET p == Head(x) * m + carry
         IN  <<p % 65536>> \o MulSmall(Tail(x), m, p \div 65536)

\* x + a, one limb longer than x
RECURSIVE AddSmall(_, _)
AddSmall(x, a) ==
    IF x = <<>> THEN <<a>>
    ELSE LET s == Head(x) + a
         IN  <<s % 65536>> \o AddSmall(Tail(x), s \div 65536)

\* u64 * u64 and u64 + u64 of the target: the low 64 bits and the overflow flag
u64_mul(x, m) ==
    LET r == MulSmall(x, m, 0)
    IN  [val |-> SubSeq(r, 1, Len(x)), overflow |-> r[Len(r)] # 0]

u64_add(x, a) ==
    LET r == AddSmall(x, a)
    IN  [val |-> SubSeq(r, 1, Len(x)), overflow |-> r[Len(r)] # 0]

\* x div m and x mod m, from the most significant limb down
RECURSIVE DivSmall(_, _, _)
DivSmall(x, m, rem) ==
    IF x = <<>> THEN [quot |-> <<>>, rem |-> rem]
    ELSE LET cur == rem * 65536 + x[Len(x)]
             rest == DivSmall(SubSeq(x, 1, Len(x) - 1), m, cur % m)
         IN  [quot |-> rest.quot \o <<cur \div m>>, rem |-> rest.rem]

\* Duration::subsec_millis
subsec_millis(d) == d.nanos \div 1000000

\* self.0.as_secs() * 1000 + u64::from(self.0.subsec_millis()): an overflow
\* panics in a build with overflow checks and wraps in one without
as_millis(d) ==
    LET m == u64_mul(as_secs(d), 1000)
        s == u64_add(m.val, subsec_millis(d))
    IN  IF overflowChecks /\ m.overflow THEN Err("attempt to multiply with overflow")
        ELSE IF overflowChecks /\ s.overflow THEN Err("attempt to add with overflow")
        ELSE Ok(s.val)

\* The largest number of seconds whose milliseconds fit in a u64, and the next
MaxMillisSecs == <<42991, 19398, 35127, 65>>
OverflowSecs == <<42992, 19398, 35127, 65>>
\* i64::MAX, the latest second a timespec holds
MaxTimeSecs == <<65535, 65535, 65535, 32767>>

\* What SystemTime::now().duration_since(UNIX_EPOCH) can give
SystemDurations ==
    {[secs |-> U64(0), nanos |-> 0],
     [secs |-> U64(1600000000), nanos |-> 123456789],
     [secs |-> MaxMillisSecs, nanos |-> 615999999],
     [secs |-> MaxMillisSecs, nanos |-> 616000000],
     [secs |-> OverflowSecs, nanos |-> 0],
     [secs |-> MaxTimeSecs, nanos |-> 999999999]}

----------------------------------------------------------------------------
(* device_check.rs *)

DcEnv == {"Dev", "Prod"}

DcEnv_base_endpoint(env) ==
    CASE env = "Dev" ->
           <<"h", "t", "t", "p", "s", ":", "/", "/", "a", "p", "i", ".",
             "d", "e", "v", "e", "l", "o", "p", "m", "e", "n", "t", ".",
             "d", "e", "v", "i", "c", "e", "c", "h", "e", "c", "k", ".",
             "a", "p", "p", "l", "e", ".", "c", "o", "m">>
      [] env = "Prod" ->
           <<" ", "h", "t", "t", "p", "s", ":", "/", "/", "a", "p", "i", ".",
             "d", "e", "v", "i", "c", "e", "c", "h", "e", "c", "k", ".",
             "a", "p", "p", "l", "e", ".", "c", "o", "m">>

DcEnv_validate_device_endpoint(env) ==
    DcEnv_base_endpoint(env)
        \o <<"/", "v", "1", "/", "v", "a", "l", "i", "d", "a", "t", "e", "_",
             "d", "e", "v", "i", "c", "e", "_", "t", "o", "k", "e", "n">>

\* &str
DeviceTokens == {<<>>, <<"t", "o", "k">>}
TransactionIds == {<<"t", "x", "1">>, <<" ">>}

ValidationReq_new(device_token, transaction_id, duration_since_epoch) ==
    LET timestamp == as_millis(duration_since_epoch)
    IN  IF timestamp.ok
        THEN Ok([device_token |-> device_token, transaction_id |-> transaction_id,
                 timestamp |-> timestamp.val])
        ELSE Err(timestamp.err)

\* StdDurationSinceEpoch::now(), the system clock reading d
SystemTimeNow(d) ==
    /\ timeSource' = Some(d)
    /\ secsOut' = None
    /\ millisOut' = None
    /\ validationReq' = None
    /\ tokenClaims' = None
    /\ UNCHANGED <<overflowChecks, endpoint>>
    /\ UNCHANGED <<algVars, keyVars, timeVars, claimsVars, detVars, jwkVars, ckVars>>

AsSecs ==
    /\ timeSource.some
    /\ secsOut' = Some(as_secs(timeSource.val))
    /\ UNCHANGED <<overflowChecks, timeSource, millisOut, endpoint, validationReq, tokenClaims>>
    /\ UNCHANGED <<algVars, keyVars, timeVars, claimsVars, detVars, jwkVars, ckVars>>

AsMillis ==
    /\ timeSource.some
    /\ millisOut' = Some(as_millis(timeSource.val))
    /\ UNCHANGED <<overflowChecks, timeSource, secsOut, endpoint, validationReq, tokenClaims>>
    /\ UNCHANGED <<algVars, keyVars, timeVars, claimsVars, detVars, jwkVars, ckVars>>

ValidateDeviceEndpoint(env) ==
    /\ endpoint' = Some([env |-> env, url |-> DcEnv_validate_device_endpoint(env)])
    /\ UNCHANGED <<overflowChecks, timeSource, secsOut, millisOut, validationReq, tokenClaims>>
    /\ UNCHANGED <<algVars, keyVars, timeVars, claimsVars, detVars, jwkVars, ckVars>>

NewValidationReq(device_token, transaction_id) ==
    /\ timeSource.some
    /\ validationReq' =
           Some([device_token |-> device_token, transaction_id |-> transaction_id,
                 res |-> ValidationReq_new(device_token, transaction_id, timeSource.val)])
    /\ UNCHANGED <<overflowChecks, timeSource, secsOut, millisOut, endpoint, tokenClaims>>
    /\ UNCHANGED <<algVars, keyVars, timeVars, claimsVars, detVars, jwkVars, ckVars>>

\* Claims::new on the time source ValidationReq::new is given
NewTokenClaims(team_id) ==
    /\ timeSource.some
    /\ tokenClaims' = Some(Claims_new(team_id, timeSource.val))
    /\ UNCHANGED <<overflowChecks, timeSource, secsOut, millisOut, endpoint, validationReq>>
    /\ UNCHANGED <<algVars, keyVars, timeVars, claimsVars, detVars, jwkVars, ckVars>>

\* The build checks arithmetic overflow (debug) or does not (release).
InitDc ==
    /\ overflowChecks \in BOOLEAN
    /\ timeSource = None /\ secsOut = None /\ millisOut = None
    /\ endpoint = None /\ validationReq = None /\ tokenClaims = None

NextDc ==
    \/ \E d \in SystemDurations : SystemTimeNow(d)
    \/ AsSecs
    \/ AsMillis
    \/ \E env \in DcEnv : ValidateDeviceEndpoint(env)
    \/ \E device_token \in DeviceTokens, transaction_id \in TransactionIds :
          NewValidationReq(device_token, transaction_id)
    \/ \E team_id \in TeamIds : NewTokenClaims(team_id)

----------------------------------------------------------------------------
(* Specifications.  The components (Algorithm; Key and Header; the time     *)
(* source and Claims) share no variable, so each is also checked on its    *)
(* own, with the others left in their initial state.                       *)

Init ==
    /\ InitAlg /\ InitKey /\ InitTime /\ InitClaims /\ InitDet
    /\ InitJwk /\ InitCk /\ InitDc

Next ==
    \/ NextAlg \/ NextKey \/ NextTime \/ NextClaims \/ NextDet \/ NextJwk
    \/ NextCk \/ NextDc

Spec == Init /\ [][Next]_vars

\* Time does not enter Algorithm, Key or Header: their clock starts at the epoch.
Epoch == [secs |-> 0, nanos |-> 0]

InitAtEpoch == Init /\ clock = Epoch /\ ~overflowChecks

\* The time source of DeviceCheck is its own; either build.
InitDeviceCheck == Init /\ clock = Epoch

SpecAlg == InitAtEpoch /\ [][NextAlg]_vars
SpecKey == InitAtEpoch /\ [][NextKey]_vars
SpecClaims == Init /\ [][NextTime \/ NextClaims]_vars
SpecDet == Init /\ [][NextTime \/ NextDet]_vars
SpecJwk == InitAtEpoch /\ [][NextJwk]_vars
SpecCloudKit == InitAtEpoch /\ [][NextCk]_vars
SpecDeviceCheck == InitDeviceCheck /\ [][NextDc]_vars

----------------------------------------------------------------------------
(* Claims about Algorithm *)

\* C1: for a registered name s, from_str(s) succeeds and as_str() of the
\* result is s; for a variant a, from_str(a.as_str()) is a again; distinct
\* variants have distinct strings.
C1_RoundTrip ==
    /\ (algIn.some /\ algIn.val \in Registered) =>
           /\ algRes.val.ok
           /\ algOut.some => algOut.val = algIn.val
    /\ algBack.some => algBack.val = Ok(algVal.val)
    /\ \A a, b \in Algorithm :
           a # b => Algorithm_as_str(a) # Algorithm_as_str(b)
    /\ {Algorithm_as_str(a) : a \in Algorithm} = Registered

C1_Witness ==
    /\ algIn = Some(RS256)
    /\ algOut = Some(RS256)
    /\ algVal = Some("Rs256")
    /\ algBack.some

\* C2 (as stated): for a string s that is not a registered name, from_str(s)
\* does not fail and gives a value whose as_str() is s.
C2_LenientParse ==
    (algIn.some /\ algIn.val \notin Registered) =>
        /\ algRes.val.ok
        /\ Algorithm_as_str(algRes.val.val) = algIn.val

\* C2 (amended): for a string s that is not a registered name, from_str(s)
\* fails, no Algorithm value is produced, and no Algorithm has s as its
\* string, so the text is not retained.
C2_UnknownIsRejected ==
    (algIn.some /\ algIn.val \notin Registered) =>
        /\ ~algRes.val.ok
        /\ DOMAIN algRes.val = {"ok", "err"}
        /\ ~algOut.some
        /\ \A a \in Algorithm : Algorithm_as_str(a) # algIn.val

C2_Witness ==
    /\ algIn = Some(ToLower(RS256))
    /\ algRes.some
    /\ ~algRes.val.ok

\* C3: from_str returns an error exactly when the input is not byte-for-byte
\* "ES256" or "RS256"; case-folded, padded and empty inputs are rejected, and
\* UnknownAlgorithm is the only error.
C3_StrictParse ==
    algIn.some =>
        /\ ~algRes.val.ok <=> algIn.val \notin {ES256, RS256}
        /\ ~algRes.val.ok => algRes.val.err = "UnknownAlgorithm"
        /\ algIn.val \in {ToLower(ES256), <<" ">> \o ES256, ES256 \o <<" ">>, <<>>}
               => algRes.val = Err("UnknownAlgorithm")
        /\ algRes.val.ok => algRes.val.val \in Algorithm

C3_Witness ==
    /\ algIn = Some(ES256 \o <<" ">>)
    /\ algRes = Some(Err("UnknownAlgorithm"))

----------------------------------------------------------------------------
(* Claims about Key and Header *)

\* C4: Header::new(key) gives a header whose alg() is the string of the key's
\* algorithm and whose kid() is the key's id unchanged; it is defined for
\* every key, and an empty id gives an empty kid.
C4_HeaderOfKey ==
    /\ key.some => ENABLED NewHeader
    /\ \A k \in TraitKeys : ENABLED NewCryptoHeader(k)
    /\ header.some =>
           LET k == header.val.of
               h == header.val.h
           IN /\ header.val.rev = "jwt" =>
                     Header_alg(h) = Algorithm_as_str(Key_alg(k))
              /\ header.val.rev = "crypto" => Header_alg(h) = k.alg
              /\ Header_kid(h) = k.id
              /\ k.id = <<>> => Header_kid(h) = <<>>
              /\ DOMAIN h = {"alg", "kid"}

C4_Witness ==
    /\ header.some
    /\ header.val.rev = "jwt"
    /\ header.val.of.id = <<>>
    /\ header.val.of.alg = "Rs256"
    /\ header.val.h = [alg |-> RS256, kid |-> <<>>]

\* C5: a serialized Header is exactly the entry "alg" followed by the entry
\* "kid", whatever their values; for id "abc123" and ES256 the text is
\* {"alg":"ES256","kid":"abc123"}.
C5_HeaderSerialized ==
    headerOut.some =>
        LET h == headerOut.val.of
            es == headerOut.val.entries
        IN /\ Keys(es) = <<"alg", "kid">>
           /\ es[1].v = StrValue(Header_alg(h))
           /\ es[2].v = StrValue(Header_kid(h))
           /\ h = [alg |-> ES256, kid |-> abc123] =>
                  headerOut.val.json = "{\"alg\":\"ES256\",\"kid\":\"abc123\"}"
           /\ h = [alg |-> ES256, kid |-> <<>>] =>
                  headerOut.val.json = "{\"alg\":\"ES256\",\"kid\":\"\"}"

C5_Witness ==
    /\ header.some
    /\ header.val.rev = "jwt"
    /\ headerOut.some
    /\ headerOut.val.of = header.val.h
    /\ headerOut.val.of.kid = <<>>
    /\ Len(headerOut.val.entries) = 2

\* C9: Key::new is defined for every id, algorithm and key material, also
\* when the material's family is not the algorithm's, and id(), alg() and
\* data() of the key are the three arguments.
C9_KeyKeepsArguments ==
    /\ \A id \in KeyIds, alg \in Algorithm, data \in KeyDatas :
           ENABLED NewKey(id, alg, data)
    /\ key.some =>
           /\ Key_id(key.val) = keyArgs.val.id
           /\ Key_alg(key.val) = keyArgs.val.alg
           /\ Key_data(key.val) = keyArgs.val.data

C9_Witness ==
    /\ key.some
    /\ keyArgs.val.alg = "Es256"
    /\ keyArgs.val.data = KeyData_Jwk(RsaJwk)
    /\ Key_alg(key.val) = "Es256"
    /\ Key_data(key.val).jwk.kty = <<"R", "S", "A">>

HasBytes(d) == "bytes" \in DOMAIN d
HasJwk(d) == "jwk" \in DOMAIN d

\* C10: the key material of a Key is either a byte buffer or a JWK: exactly
\* one of the two is there, the one its tag names.
C10_OneRepresentation ==
    key.some =>
        LET d == Key_data(key.val)
        IN /\ HasBytes(d) # HasJwk(d)
           /\ d.tag \in {"Pkcs8", "Jwk"}
           /\ d.tag = "Pkcs8" <=> HasBytes(d)
           /\ d.tag = "Jwk" <=> HasJwk(d)

C10_Witness ==
    /\ key.some
    /\ Key_data(key.val).tag = "Jwk"
    /\ HasJwk(Key_data(key.val))
    /\ ~HasBytes(Key_data(key.val))

----------------------------------------------------------------------------
(* Claims about Claims *)

\* C6 (as stated): Claims::new gives claims whose exp is the expiry the
\* caller supplied.
C6_ExpFromCaller ==
    claimsArgs.some =>
        claimsNew.val =
            [iss |-> claimsArgs.val.team_id, iat |-> as_secs(claimsArgs.val.time),
             exp |-> claimsArgs.val.exp, aud |-> None, sub |-> None]

\* C6 (amended): Claims::new(team_id, time_source) gives claims with iss the
\* team id, iat the time source's as_secs(), and exp, aud and sub absent,
\* whatever expiry the caller means; exp is there only once the caller has
\* set the field.
C6_NewClaims ==
    claimsArgs.some =>
        /\ claimsNew.val =
               [iss |-> claimsArgs.val.team_id, iat |-> as_secs(claimsArgs.val.time),
                exp |-> None, aud |-> None, sub |-> None]
        /\ claims.val.iss = claimsArgs.val.team_id
        /\ claims.val.iat = as_secs(claimsArgs.val.time)

C6_Witness ==
    /\ claimsArgs.some
    /\ claimsArgs.val.exp = SomeExp
    /\ claimsArgs.val.time.secs = 1600000000
    /\ claimsNew.val.exp = None
    /\ claims.val.exp = SomeExp

KeySet(es) == {es[i].k : i \in 1..Len(es)}

IndexOf(es, k) == (CHOOSE i \in 1..Len(es) : es[i].k = k)

\* C7: serialized Claims always hold iss and iat; exp, aud and sub are there
\* exactly when set, with their value and never as null; for TEAM0123XY at
\* 1600000000 s without exp the text is {"iss":"TEAM0123XY","iat":1600000000}.
C7_ClaimsSerialized ==
    claimsOut.some =>
        LET c == claimsOut.val.of
            es == claimsOut.val.entries
        IN /\ es[1] = Entry("iss", StrValue(c.iss))
           /\ es[2] = Entry("iat", U64Value(c.iat))
           /\ KeySet(es) \subseteq {"iss", "iat", "exp", "aud", "sub"}
           /\ Cardinality(KeySet(es)) = Len(es)
           /\ "exp" \in KeySet(es) <=> c.exp.some
           /\ "aud" \in KeySet(es) <=> c.aud.some
           /\ "sub" \in KeySet(es) <=> c.sub.some
           /\ \A i \in 1..Len(es) : es[i].v.t # "null"
           /\ c.exp.some => es[IndexOf(es, "exp")].v = U64Value(c.exp.val)
           /\ c.aud.some => es[IndexOf(es, "aud")].v = StrValue(c.aud.val)
           /\ c.sub.some => es[IndexOf(es, "sub")].v = StrValue(c.sub.val)
           /\ c = [iss |-> TEAM0123XY, iat |-> 1600000000,
                   exp |-> None, aud |-> None, sub |-> None] =>
                  claimsOut.val.json = "{\"iss\":\"TEAM0123XY\",\"iat\":1600000000}"
           /\ c = [iss |-> TEAM0123XY, iat |-> 1600000000,
                   exp |-> SomeExp, aud |-> None, sub |-> None] =>
                  claimsOut.val.json =
                      "{\"iss\":\"TEAM0123XY\",\"iat\":1600000000,\"exp\":1600003600}"

C7_Witness ==
    /\ claimsOut.some
    /\ claimsOut.val.of.iss = TEAM0123XY
    /\ claimsOut.val.of.exp = None
    /\ claimsOut.val.of.sub # None
    /\ claimsOut.val.json =
           "{\"iss\":\"TEAM0123XY\",\"iat\":1600000000,\"sub\":\"sub\"}"

\* C8: two Headers built from the same key, and two Claims built from the
\* same team id and time snapshot, are equal and serialize to the same text,
\* whenever they are built; the iat of Claims is the snapshot's as_secs(),
\* not the clock's.
C8_Deterministic ==
    /\ (built.some /\ builtPrev.some
            /\ built.val.kind = builtPrev.val.kind /\ built.val.in = builtPrev.val.in) =>
           /\ built.val.val = builtPrev.val.val
           /\ built.val.json = builtPrev.val.json
    /\ (built.some /\ built.val.kind = "Claims") =>
           built.val.val.iat = as_secs(built.val.in.time)

C8_Witness ==
    /\ built.some
    /\ builtPrev.some
    /\ built.val.kind = "Claims"
    /\ builtPrev.val.kind = "Claims"
    /\ built.val.in = builtPrev.val.in
    /\ Later(builtPrev.val.at, built.val.at)
    /\ Later(built.val.in.time, builtPrev.val.at)

----------------------------------------------------------------------------
(* Claims about Jwk and JwkSet *)

\* The object has kty as a string and every optional member it has is a
\* string or null.
WellTyped(doc) ==
    /\ "kty" \in DOMAIN doc
    /\ doc["kty"].t = "str"
    /\ \A k \in DOMAIN doc \cap OptionalJwkFields : doc[k].t \in {"str", "null"}

\* The key that a parse gave: the parsed value, or the last element of the set.
ParsedKey(p) == IF p.set THEN p.res.val.keys[Len(p.res.val.keys)] ELSE p.res.val

\* Only kty is required: a well-typed object parses, whatever optional
\* members are absent, with the absent ones unset and members the type does
\* not know ignored; without kty the parse fails.
OnlyKtyRequired(p) ==
    /\ WellTyped(jwkDoc) =>
           /\ p.res.ok
           /\ ParsedKey(p).kty = jwkDoc["kty"].v
           /\ \A k \in (OptionalJwkFields \cap DOMAIN ParsedKey(p)) \ DOMAIN jwkDoc :
                  ParsedKey(p)[k] = None
           /\ \A k \in OptionalJwkFields \cap DOMAIN ParsedKey(p) \cap DOMAIN jwkDoc :
                  ParsedKey(p)[k] = OptionalString(jwkDoc, k).val
    /\ "kty" \notin DOMAIN jwkDoc => ~p.res.ok

\* C11 (as stated): every Jwk type, siwa.rs's JWK among them, and every
\* element of a key set, requires only kty.
C11_OnlyKtyRequired == jwkParsed.some => OnlyKtyRequired(jwkParsed.val)

\* C11 (amended): jwt::Jwk and crypto::Jwk, and the elements of their JwkSet,
\* require only kty; siwa::JWK, and the elements of JWKSet, parse exactly when
\* kty, kid, use, alg, e and n are all there as strings, and fail with a
\* missing field otherwise; all three ignore a member they do not know.
C11_JwkParse ==
    jwkParsed.some =>
        LET p == jwkParsed.val
        IN /\ p.ty \in {"jwt::Jwk", "crypto::Jwk"} =>
                  /\ OnlyKtyRequired(p)
                  /\ p.res.ok => DOMAIN ParsedKey(p) = JwkFields
           /\ p.ty = "siwa::JWK" =>
                  /\ p.res.ok <=>
                         /\ SiwaJwkFields \subseteq DOMAIN jwkDoc
                         /\ \A k \in SiwaJwkFields : jwkDoc[k].t = "str"
                  /\ (/\ \A k \in SiwaJwkFields \cap DOMAIN jwkDoc : jwkDoc[k].t = "str"
                      /\ ~(SiwaJwkFields \subseteq DOMAIN jwkDoc)) =>
                         p.res = Err("missing field")
                  /\ p.res.ok =>
                         ParsedKey(p) = [k \in SiwaJwkFields |-> jwkDoc[k].v]

C11_Witness ==
    /\ jwkParsed.some
    /\ jwkParsed.val.ty = "crypto::Jwk"
    /\ jwkParsed.val.set
    /\ DOMAIN jwkDoc = {"kty", "n", "e", UnknownField}
    /\ jwkParsed.val.res.ok
    /\ ParsedKey(jwkParsed.val).kid = None
    /\ ParsedKey(jwkParsed.val).n = Some(<<"v">>)

\* C12 (as stated): the re-serialized Jwk has kty and exactly the optional
\* fields that the source object had.
C12_FieldsPreserved ==
    jwkOut.some => KeySet(jwkOut.val.entries) = DOMAIN jwkDoc \cap JwkFields

\* C12 (amended): the re-serialized jwt::Jwk has kty and exactly the optional
\* fields that the source object had with a string value, each with that
\* value, in declaration order; a field absent or null in the source is absent
\* from the output and nothing is emitted as null.
C12_StringFieldsPreserved ==
    jwkOut.some =>
        LET es == jwkOut.val.entries
        IN /\ KeySet(es) = {k \in DOMAIN jwkDoc \cap JwkFields : jwkDoc[k].t = "str"}
           /\ Cardinality(KeySet(es)) = Len(es)
           /\ es[1] = Entry("kty", jwkDoc["kty"])
           /\ \A i \in 1..Len(es) : es[i].v = jwkDoc[es[i].k] /\ es[i].v.t # "null"
           /\ DOMAIN jwkDoc = {"kty", "n", "e"} =>
                  jwkOut.val.json = "{\"kty\":\"RSA\",\"e\":\"v\",\"n\":\"v\"}"

C12_Witness ==
    /\ jwkOut.some
    /\ DOMAIN jwkDoc = {"kty", "n", "e", "kid"}
    /\ jwkDoc["kid"] = NullValue
    /\ KeySet(jwkOut.val.entries) = {"kty", "n", "e"}

\* The names the CloudKit web service gives an environment and a database.
EnvironmentName(env) == IF env = "Dev" THEN "development" ELSE "production"

DatabaseName(db) ==
    IF db = "Public" THEN "public" ELSE IF db = "Private" THEN "private" ELSE "shared"

DatabasePath(r) ==
    "/database/1/" \o Text(r.db_base_path.container) \o "/"
        \o EnvironmentName(r.db_base_path.env) \o "/" \o DatabaseName(r.db)

\* C13: for every container, environment and database the sub-path of a
\* ModifyRecordsRequest is "/database/1/<container>/<environment>/<db>/records/modify"
\* and that of a FetchZonesRequest is ".../<db>/zones/list"; the modify request
\* carries the body it was built with and the fetch-zones request carries none.
C13_RequestPaths ==
    /\ ckPath.some =>
          /\ ckReq.val.req = "ModifyRecordsRequest" =>
                ckPath.val = DatabasePath(ckReq.val) \o "/records/modify"
          /\ ckReq.val.req = "FetchZonesRequest" =>
                ckPath.val = DatabasePath(ckReq.val) \o "/zones/list"
          /\ (/\ ckReq.val.db_base_path = [container |-> iCloud_app, env |-> "Prod"]
              /\ ckReq.val.db = "Private"
              /\ ckReq.val.req = "FetchZonesRequest") =>
                ckPath.val = "/database/1/iCloud.app/production/private/zones/list"
    /\ ckBody.some =>
          /\ ckReq.val.req = "ModifyRecordsRequest" =>
                ckBody.val = Some(ckReq.val.body)
          /\ ckReq.val.req = "FetchZonesRequest" => ckBody.val = None

C13_Witness ==
    /\ ckReq.some /\ ckPath.some /\ ckBody.some
    /\ ckReq.val.req = "ModifyRecordsRequest"
    /\ ckReq.val.db = "Public"
    /\ ckReq.val.body.atomic = Some(TRUE)
    /\ ckPath.val = "/database/1/iCloud.app/development/public/records/modify"

\* C14: as_secs() and as_millis() of the standard-library time source describe
\* the same instant: as_millis() is as_secs() * 1000 plus the sub-second
\* milliseconds, so as_millis() div 1000 is as_secs(), for every duration,
\* the multiplication neither overflowing nor wrapping.
C14_MillisAgreeWithSecs ==
    millisOut.some =>
        /\ millisOut.val.ok
        /\ DivSmall(millisOut.val.val, 1000, 0).quot = as_secs(timeSource.val)
        /\ DivSmall(millisOut.val.val, 1000, 0).rem = subsec_millis(timeSource.val)

StartsWith(s, prefix) ==
    Len(s) >= Len(prefix) /\ SubSeq(s, 1, Len(prefix)) = prefix

\* C15: for Dev and Prod validate_device_endpoint() is the base endpoint
\* followed by "/v1/validate_device_token", a well-formed absolute URL: it
\* starts with "https://" and holds no whitespace; the two environments give
\* different endpoints.
C15_EndpointsWellFormed ==
    /\ endpoint.some =>
          /\ endpoint.val.url =
                 DcEnv_base_endpoint(endpoint.val.env)
                     \o <<"/", "v", "1", "/", "v", "a", "l", "i", "d", "a", "t", "e",
                          "_", "d", "e", "v", "i", "c", "e", "_", "t", "o", "k", "e", "n">>
          /\ StartsWith(endpoint.val.url, <<"h", "t", "t", "p", "s", ":", "/", "/">>)
          /\ \A i \in 1..Len(endpoint.val.url) : ~IsSpace(endpoint.val.url[i])
    /\ DcEnv_validate_device_endpoint("Dev") # DcEnv_validate_device_endpoint("Prod")

\* C16: ValidationReq::new(device_token, transaction_id, time_source) keeps the
\* device token and the transaction id and sets timestamp to the time source's
\* as_millis(), Claims::new takes as_secs() of the same time source, and
\* neither constructor fails.
C16_ValidationReqNew ==
    /\ validationReq.some =>
          /\ validationReq.val.res.ok
          /\ validationReq.val.res.val.device_token = validationReq.val.device_token
          /\ validationReq.val.res.val.transaction_id = validationReq.val.transaction_id
          /\ as_millis(timeSource.val).ok
          /\ validationReq.val.res.val.timestamp = as_millis(timeSource.val).val
    /\ tokenClaims.some => tokenClaims.val.iat = as_secs(timeSource.val)

====
